---- MODULE Spec2Model ----
(***************************************************************************)
(* Model of webview-sys/mshtml/mod.rs: the C entry points of the MSHTML    *)
(* backend (webview_new, webview_loop, webview_eval, webview_exit,         *)
(* webview_free, webview_get_user_data, webview_dispatch) together with    *)
(* the message queue of the UI thread and the callback the embedded        *)
(* control calls.                                                          *)
(*                                                                         *)
(* window.rs and web_view.rs are not part of the sources at hand: the      *)
(* window procedure (IsTask, TaskCall) and the control's use of the        *)
(* registered callback (external_invoke) follow the specification.         *)
(*                                                                         *)
(* Text is modelled as sequences of bytes (0..255); pointers as naturals   *)
(* with NULL = 0.                                                          *)
(***************************************************************************)
EXTENDS Bags, FiniteSets, Integers, Sequences, TLC

(* ------------------------------ bounds -------------------------------- *)

\* number of CWebView boxes the allocator can hand out
MaxHandles == 2
\* number of DispatchData boxes the allocator can hand out
MaxDispatch == 3
\* capacity of the thread message queue (PostMessageW fails when it is full)
QueueLimit == 2
\* number of messages from the OS (native events, WM_QUIT) waiting in the
\* queue at a time
MaxOsPending == 1
\* number of script-to-host calls the control makes
MaxInvoke == 1
\* length of the generated part of a url
MaxTail == 3
\* number of threads that call webview_dispatch
MaxThreads == 2
\* number of scripts a CWebView is asked to evaluate
MaxEval == 1

(* ------------------------- program constants -------------------------- *)

NULL == 0
WM_NULL == 0
WM_PAINT == 15
WM_QUIT == 18
WM_WEBVIEW_DISPATCH == 32769

\* "data:text/html,"
DATA_URL_PREFIX ==
  <<100, 97, 116, 97, 58, 116, 101, 120, 116, 47, 104, 116, 109, 108, 44>>

\* "about:blank"
ABOUT_BLANK == <<97, 98, 111, 117, 116, 58, 98, 108, 97, 110, 107>>

(* --------------------------- text functions --------------------------- *)

\* str::starts_with
starts_with(s, p) ==
  /\ Len(s) >= Len(p)
  /\ \A i \in 1..Len(p) : s[i] = p[i]

\* &url[n..]
slice_from(s, n) == [i \in 1..(Len(s) - n) |-> s[i + n]]

\* value of an ASCII hex digit, -1 when the byte is not one
hex_val(b) ==
  IF b >= 48 /\ b <= 57 THEN b - 48
  ELSE IF b >= 65 /\ b <= 70 THEN b - 55
  ELSE IF b >= 97 /\ b <= 102 THEN b - 87
  ELSE -1

\* percent_encoding::percent_decode_str: "%XY" with two hex digits becomes
\* one byte, every other byte (a lone '%' too) is copied
RECURSIVE percent_decode_str(_)
percent_decode_str(s) ==
  IF s = <<>> THEN <<>>
  ELSE IF /\ s[1] = 37
          /\ Len(s) >= 3
          /\ hex_val(s[2]) >= 0
          /\ hex_val(s[3]) >= 0
       THEN <<16 * hex_val(s[2]) + hex_val(s[3])>>
              \o percent_decode_str(slice_from(s, 3))
       ELSE <<s[1]>> \o percent_decode_str(Tail(s))

is_cont(b) == b >= 128 /\ b <= 191

\* core::str::from_utf8 succeeds (CStr::to_str, decode_utf8)
RECURSIVE is_utf8(_)
is_utf8(s) ==
  IF s = <<>> THEN TRUE
  ELSE LET b == s[1] IN
    IF b < 128 THEN is_utf8(Tail(s))
    ELSE IF b >= 194 /\ b <= 223
      THEN /\ Len(s) >= 2
           /\ is_cont(s[2])
           /\ is_utf8(slice_from(s, 2))
    ELSE IF b >= 224 /\ b <= 239
      THEN /\ Len(s) >= 3
           /\ is_cont(s[2])
           /\ is_cont(s[3])
           /\ (b = 224 => s[2] >= 160)
           /\ (b = 237 => s[2] <= 159)
           /\ is_utf8(slice_from(s, 3))
    ELSE IF b >= 240 /\ b <= 244
      THEN /\ Len(s) >= 4
           /\ is_cont(s[2])
           /\ is_cont(s[3])
           /\ is_cont(s[4])
           /\ (b = 240 => s[2] >= 144)
           /\ (b = 244 => s[2] <= 143)
           /\ is_utf8(slice_from(s, 4))
    ELSE FALSE

(* ------------------------------- state -------------------------------- *)

Handles == 1..MaxHandles
DataIds == 1..MaxDispatch
Threads == 1..MaxThreads

VARIABLES
  cwebview,  \* heap of CWebView boxes, by address
  host,      \* per CWebView: the calls its Window and WebView received
  queue,     \* message queue of the UI thread
  data,      \* heap of DispatchData boxes, by address
  worker,    \* per thread: the DispatchData it boxed and has not posted yet
  executed,  \* calls of task functions, in order
  invoked,   \* calls of the external_invoke_cb functions, in order
  last,      \* the most recent step: entry point, inputs, result
  crashed,   \* a panic ended the process
  ui         \* where the UI thread is

vars ==
  <<cwebview, host, queue, data, worker, executed, invoked, last, crashed,
    ui>>

\* the UI thread is in the code of the host, outside every entry point
UiHost == [pc |-> "host", h |-> NULL, blocking |-> 0, d |-> 0]

NoWebView ==
  [st |-> "unalloc", external_invoke_cb |-> NULL, userdata |-> NULL,
   cb_fn |-> NULL, cb_ptr |-> NULL]

NoData == [st |-> "none", target |-> NULL, func |-> NULL, arg |-> NULL,
           thread |-> 0]

\* an environment in which webview_new meets no failure
GoodEnv == [exe |-> TRUE, subkey |-> TRUE, setval |-> TRUE, init |-> "ok"]

\* a step record with every field at its default
Step(op) ==
  [op |-> op, h |-> NULL, ret |-> 0, outcome |-> "return", blocking |-> 0,
   msg |-> -1, title |-> <<>>, url |-> <<>>, env |-> GoodEnv,
   handled |-> FALSE, cb |-> NULL, userdata |-> NULL, func |-> NULL,
   js |-> <<>>, result |-> <<>>]

Init ==
  /\ cwebview = [h \in Handles |-> NoWebView]
  /\ host = [h \in Handles |-> <<>>]
  /\ queue = <<>>
  /\ data = [d \in DataIds |-> NoData]
  /\ worker = [t \in Threads |-> 0]
  /\ executed = <<>>
  /\ invoked = <<>>
  /\ last = Step("init")
  /\ crashed = FALSE
  /\ ui = UiHost

\* the window of a CWebView exists (created, not yet destroyed)
IsWindow(hwnd) == hwnd \in Handles /\ cwebview[hwnd].st = "live"

(* ------------------------------ webview_new --------------------------- *)

\* fix_ie_compat_mode without the test of set_value's result
fix_ie_compat_mode_noset(env) ==
  IF ~env.exe THEN FALSE
  ELSE IF ~env.subkey THEN FALSE
  ELSE TRUE

\* env.exe: current_exe() has a file name; env.subkey: create_subkey
\* succeeded; env.setval: set_value succeeded
fix_ie_compat_mode(env) ==
  IF ~env.exe THEN FALSE
  ELSE IF ~env.subkey THEN FALSE
  ELSE IF ~env.setval THEN FALSE
  ELSE TRUE

HostCall(fn, arg) == [fn |-> fn, arg |-> arg]

\* route writing the remainder of the url as it is, not percent-decoded
route_raw(url) ==
  IF starts_with(url, DATA_URL_PREFIX)
  THEN <<HostCall("navigate", ABOUT_BLANK),
         HostCall("write", slice_from(url, Len(DATA_URL_PREFIX)))>>
  ELSE <<HostCall("navigate", url)>>

\* route navigating to the url before it looks at the prefix
route_both(url) ==
  IF starts_with(url, DATA_URL_PREFIX)
  THEN <<HostCall("navigate", url),
         HostCall("write",
                  percent_decode_str(slice_from(url, Len(DATA_URL_PREFIX))))>>
  ELSE <<HostCall("navigate", url)>>

\* the calls the WebView receives for the url: inline content or navigation
route(url) ==
  IF starts_with(url, DATA_URL_PREFIX)
  THEN <<HostCall("navigate", ABOUT_BLANK),
         HostCall("write",
                  percent_decode_str(slice_from(url, Len(DATA_URL_PREFIX))))>>
  ELSE <<HostCall("navigate", url)>>

\* the calls made on the Window and the WebView of a new CWebView, in order
construct(url) ==
  <<HostCall("Window::new", <<>>),
    HostCall("WebView::new", <<>>),
    HostCall("initialize", <<>>)>>
   \o route(url)
   \o <<HostCall("ShowWindow", <<>>),
        HostCall("Box::into_raw", <<>>),
        HostCall("set_callback", <<>>)>>

\* expect("url is not valid utf8") or decode_utf8().unwrap() panics
new_panics(url) ==
  \/ ~is_utf8(url)
  \/ /\ starts_with(url, DATA_URL_PREFIX)
     /\ ~is_utf8(percent_decode_str(slice_from(url, Len(DATA_URL_PREFIX))))

\* Box::into_raw(cwebview): the address of the box
into_raw(h) == h

\* A panic inside an extern "C" function aborts the process or unwinds into
\* the foreign caller, depending on the build. Either way the process is
\* lost: what the panicking call had built so far is not kept in the state.
PanicOutcomes == {"abort", "unwind"}

webview_new(title, url, external_invoke_cb, userdata, env) ==
  /\ ~crashed
  /\ ui.pc # "GetMessageW"
  /\ IF ~fix_ie_compat_mode(env)
     THEN /\ last' = [Step("webview_new") EXCEPT
                        !.title = title, !.url = url, !.env = env,
                        !.cb = external_invoke_cb,
                        !.userdata = userdata, !.ret = NULL]
          /\ UNCHANGED <<cwebview, host, queue, data, worker, executed,
                         invoked, crashed>>
     ELSE \E h \in Handles :
          /\ cwebview[h].st = "unalloc"
          /\ \A g \in Handles : g < h => cwebview[g].st # "unalloc"
          /\ IF env.init = "panic" \/ new_panics(url)
             THEN \E o \in PanicOutcomes :
                  /\ crashed' = TRUE
                  /\ last' = [Step("webview_new") EXCEPT
                                !.title = title, !.url = url, !.env = env,
                                !.cb = external_invoke_cb,
                                !.userdata = userdata, !.outcome = o]
                  /\ UNCHANGED <<cwebview, host, queue, data, worker,
                                 executed, invoked>>
             ELSE /\ cwebview' = [cwebview EXCEPT ![h] =
                        [st |-> "live",
                         external_invoke_cb |-> external_invoke_cb,
                         userdata |-> userdata,
                         cb_fn |-> external_invoke_cb,
                         cb_ptr |-> into_raw(h)]]
                  /\ host' = [host EXCEPT ![h] = construct(url)]
                  /\ last' = [Step("webview_new") EXCEPT
                                !.title = title, !.url = url, !.env = env,
                                !.cb = external_invoke_cb,
                                !.userdata = userdata,
                                !.ret = into_raw(h)]
                  /\ UNCHANGED <<queue, data, worker, executed, invoked,
                                 crashed>>
  /\ UNCHANGED ui

(* --------------------------- webview_dispatch ------------------------- *)

Msg(hwnd, message, lParam) ==
  [hwnd |-> hwnd, message |-> message, lParam |-> lParam]

\* PostMessageW putting the message in front of the waiting ones
PostMessageW_front(q, hwnd, message, lParam) ==
  IF hwnd \in Handles /\ cwebview[hwnd].st = "live" /\ Len(q) < QueueLimit
  THEN [ok |-> TRUE, queue |-> <<[hwnd |-> hwnd, message |-> message,
                                  lParam |-> lParam]>> \o q]
  ELSE [ok |-> FALSE, queue |-> q]

\* PostMessageW reporting success without queueing the message
PostMessageW_drop(q, hwnd, message, lParam) ==
  IF hwnd \in Handles /\ cwebview[hwnd].st = "live" /\ Len(q) < QueueLimit
  THEN [ok |-> TRUE, queue |-> q]
  ELSE [ok |-> FALSE, queue |-> q]

\* PostMessageW: the message is appended when the window exists and the
\* queue has room; the result is ignored by the caller
PostMessageW(q, hwnd, message, lParam) ==
  IF IsWindow(hwnd) /\ Len(q) < QueueLimit
  THEN [ok |-> TRUE, queue |-> Append(q, Msg(hwnd, message, lParam))]
  ELSE [ok |-> FALSE, queue |-> q]

\* webview_dispatch boxing the function as it is, without f.unwrap()
dispatch_box_nocheck(t, webview, f, arg) ==
  /\ ~crashed
  /\ worker[t] = 0
  /\ cwebview[webview].st \in {"live", "exited"}
  /\ \E d \in DataIds :
       /\ data[d].st = "none"
       /\ \A e \in DataIds : e < d => data[e].st # "none"
       /\ data' = [data EXCEPT ![d] =
                     [st |-> "boxed", target |-> webview, func |-> f,
                      arg |-> arg, thread |-> t]]
       /\ worker' = [worker EXCEPT ![t] = d]
       /\ last' = [Step("webview_dispatch") EXCEPT !.func = f]
       /\ UNCHANGED <<cwebview, host, queue, executed, invoked, crashed, ui>>

\* first half of webview_dispatch: f.unwrap() and Box::new(DispatchData)
dispatch_box(t, webview, f, arg) ==
  /\ ~crashed
  /\ worker[t] = 0
  /\ cwebview[webview].st \in {"live", "exited"}
  /\ IF f = NULL
     THEN \E o \in PanicOutcomes :
          /\ crashed' = TRUE
          /\ last' = [Step("webview_dispatch") EXCEPT
                        !.h = webview, !.func = f, !.outcome = o]
          /\ UNCHANGED <<cwebview, host, queue, data, worker, executed,
                         invoked>>
     ELSE \E d \in DataIds :
          /\ data[d].st = "none"
          /\ \A e \in DataIds : e < d => data[e].st # "none"
          /\ data' = [data EXCEPT ![d] =
                        [st |-> "boxed", target |-> webview, func |-> f,
                         arg |-> arg, thread |-> t]]
          /\ worker' = [worker EXCEPT ![t] = d]
          /\ last' = [Step("webview_dispatch") EXCEPT !.func = f]
          /\ UNCHANGED <<cwebview, host, queue, executed, invoked,
                         crashed>>
  /\ UNCHANGED ui

\* webview_dispatch calling the function itself when the post failed
dispatch_post_inline(t) ==
  /\ ~crashed
  /\ worker[t] # 0
  /\ LET d == worker[t]
         webview == data[d].target
         r == PostMessageW(queue, webview, WM_WEBVIEW_DISPATCH, d)
     IN /\ cwebview[webview].st \in {"live", "exited"}
        /\ queue' = r.queue
        /\ data' = [data EXCEPT ![d].st = IF r.ok THEN "queued" ELSE "freed"]
        /\ executed' = IF r.ok THEN executed
                       ELSE Append(executed,
                                   [id |-> d, webview |-> data[d].target,
                                    func |-> data[d].func,
                                    arg |-> data[d].arg])
        /\ worker' = [worker EXCEPT ![t] = 0]
        /\ last' = [Step("webview_dispatch") EXCEPT !.func = data[d].func]
        /\ UNCHANGED <<cwebview, host, invoked, crashed>>
  /\ UNCHANGED ui

\* second half of webview_dispatch: PostMessageW(hwnd, WM_WEBVIEW_DISPATCH,
\* 0, Box::into_raw(data)); the box is owned by the queue, or by nobody when
\* the post failed
dispatch_post(t) ==
  /\ ~crashed
  /\ worker[t] # 0
  /\ LET d == worker[t]
         webview == data[d].target
         r == PostMessageW(queue, webview, WM_WEBVIEW_DISPATCH, d)
     IN /\ cwebview[webview].st \in {"live", "exited"}
        /\ queue' = r.queue
        /\ data' = [data EXCEPT ![d].st = IF r.ok THEN "queued" ELSE "lost"]
        /\ worker' = [worker EXCEPT ![t] = 0]
        /\ last' = [Step("webview_dispatch") EXCEPT !.func = data[d].func]
        /\ UNCHANGED <<cwebview, host, executed, invoked, crashed>>
  /\ UNCHANGED ui

\* webview_dispatch calling the function at once when it is on the UI thread
dispatch_ui_inline(webview, f, arg) ==
  /\ ~crashed
  /\ ui.pc \in {"host", "task"}
  /\ cwebview[webview].st \in {"live", "exited"}
  /\ f # NULL
  /\ \E d \in DataIds :
       /\ data[d].st = "none"
       /\ \A e \in DataIds : e < d => data[e].st # "none"
       /\ data' = [data EXCEPT ![d] =
                     [st |-> "freed", target |-> webview, func |-> f,
                      arg |-> arg, thread |-> 0]]
       /\ executed' = Append(executed,
                             [id |-> d, webview |-> webview, func |-> f,
                              arg |-> arg])
  /\ last' = [Step("webview_dispatch") EXCEPT !.func = f]
  /\ UNCHANGED <<cwebview, host, queue, worker, invoked, crashed, ui>>

\* webview_dispatch called by the UI thread, from the host or from inside
\* the function of a task: nothing else of this thread runs in between
dispatch_ui(webview, f, arg) ==
  /\ ~crashed
  /\ ui.pc \in {"host", "task"}
  /\ cwebview[webview].st \in {"live", "exited"}
  /\ IF f = NULL
     THEN \E o \in PanicOutcomes :
          /\ crashed' = TRUE
          /\ last' = [Step("webview_dispatch") EXCEPT
                        !.h = webview, !.func = f, !.outcome = o]
          /\ UNCHANGED <<queue, data>>
     ELSE \E d \in DataIds :
          /\ data[d].st = "none"
          /\ \A e \in DataIds : e < d => data[e].st # "none"
          /\ LET r == PostMessageW(queue, webview, WM_WEBVIEW_DISPATCH, d)
             IN /\ queue' = r.queue
                /\ data' = [data EXCEPT ![d] =
                              [st |-> IF r.ok THEN "queued" ELSE "lost",
                               target |-> webview, func |-> f, arg |-> arg,
                               thread |-> 0]]
          /\ last' = [Step("webview_dispatch") EXCEPT !.func = f]
          /\ UNCHANGED crashed
  /\ UNCHANGED <<cwebview, host, worker, executed, invoked, ui>>

(* ----------------------------- webview_loop --------------------------- *)

\* MSG::default()
NoMsg == Msg(NULL, WM_NULL, 0)

\* GetMessageW reading the first message without removing it
GetMessageW_keep(q) ==
  [ret |-> IF Head(q).message = WM_QUIT THEN 0 ELSE 1,
   msg |-> Head(q), queue |-> q]

\* GetMessageW(&msg, 0, 0, 0): called with a non-empty queue (it blocks
\* until then); removes the first message; 0 for WM_QUIT, else nonzero
GetMessageW(q) ==
  [ret |-> IF Head(q).message = WM_QUIT THEN 0 ELSE 1,
   msg |-> Head(q), queue |-> Tail(q)]

\* PeekMessageW returning the first message and discarding the others
PeekMessageW_flush(q) ==
  IF q = <<>>
  THEN [ret |-> 0, msg |-> NoMsg, queue |-> q]
  ELSE [ret |-> 1, msg |-> Head(q), queue |-> <<>>]

\* PeekMessageW(&msg, 0, 0, 0, PM_REMOVE): removes the first message if
\* there is one; msg is left as it was when there is none
PeekMessageW(q) ==
  IF q = <<>>
  THEN [ret |-> 0, msg |-> NoMsg, queue |-> q]
  ELSE [ret |-> 1, msg |-> Head(q), queue |-> Tail(q)]

\* webview_loop reporting quit also when it holds no message
loop_ret_nomsg(msg) == IF msg.message \in {WM_QUIT, WM_NULL} THEN 1 ELSE 0

\* webview_loop without the WM_QUIT test
loop_ret_never(msg) == 0

\* the value webview_loop returns for the message it holds
loop_ret(msg) == IF msg.message = WM_QUIT THEN 1 ELSE 0

\* DispatchMessageW hands the message to the window procedure of msg.hwnd
HasWndProc(msg) == IsWindow(msg.hwnd)

\* the window procedure owns the DispatchData of a dispatch message
IsTask(msg) == HasWndProc(msg) /\ msg.message = WM_WEBVIEW_DISPATCH

\* the call (data.func)(data.target, data.arg) of the window procedure
TaskCall(d) ==
  [id |-> d, webview |-> data[d].target, func |-> data[d].func,
   arg |-> data[d].arg]

\* webview_loop handing its own argument to the task function
webview_loop_own(webview, blocking) ==
  /\ ~crashed
  /\ \/ ui.pc = "host" /\ (blocking > 0 => queue # <<>>)
     \/ /\ ui.pc = "GetMessageW"
        /\ ui.h = webview
        /\ blocking > 0
        /\ queue # <<>>
  /\ LET r == IF blocking > 0 THEN GetMessageW(queue) ELSE PeekMessageW(queue)
         msg == r.msg
     IN /\ queue' = r.queue
        /\ last' = [Step("webview_loop") EXCEPT
                      !.h = webview,
                      !.blocking = blocking,
                      !.msg = IF r.queue = queue THEN -1 ELSE msg.message,
                      !.ret = IF r.ret < 0 THEN 0 ELSE loop_ret(msg),
                      !.handled = /\ r.ret >= 0
                                  /\ loop_ret(msg) = 0
                                  /\ HasWndProc(msg)]
        /\ IF r.ret >= 0 /\ loop_ret(msg) = 0 /\ IsTask(msg)
           THEN /\ executed' = Append(executed,
                       [TaskCall(msg.lParam) EXCEPT !.webview = webview])
                /\ data' = [data EXCEPT ![msg.lParam].st = "freed"]
           ELSE UNCHANGED <<data, executed>>
        /\ UNCHANGED <<cwebview, host, worker, invoked, crashed>>
  /\ ui' = UiHost

\* _webview is not used: the queue is the one of the calling thread
webview_loop(webview, blocking) ==
  /\ ~crashed
  /\ \/ ui.pc = "host" /\ (blocking > 0 => queue # <<>>)
     \/ /\ ui.pc = "GetMessageW"
        /\ ui.h = webview
        /\ blocking > 0
        /\ queue # <<>>
  /\ LET r == IF blocking > 0 THEN GetMessageW(queue) ELSE PeekMessageW(queue)
         msg == r.msg
     IN /\ queue' = r.queue
        /\ last' = [Step("webview_loop") EXCEPT
                      !.h = webview,
                      !.blocking = blocking,
                      !.msg = IF r.queue = queue THEN -1 ELSE msg.message,
                      !.ret = IF r.ret < 0 THEN 0 ELSE loop_ret(msg),
                      !.handled = /\ r.ret >= 0
                                  /\ loop_ret(msg) = 0
                                  /\ HasWndProc(msg)]
        /\ IF r.ret >= 0 /\ loop_ret(msg) = 0 /\ IsTask(msg)
           THEN /\ executed' = Append(executed, TaskCall(msg.lParam))
                /\ data' = [data EXCEPT ![msg.lParam].st = "freed"]
           ELSE UNCHANGED <<data, executed>>
        /\ UNCHANGED <<cwebview, host, worker, invoked, crashed>>
  /\ ui' = UiHost

\* a blocking webview_loop call finds the queue empty: the UI thread stays
\* inside GetMessageW until a message arrives
loop_wait(webview) ==
  /\ ~crashed
  /\ ui.pc = "host"
  /\ queue = <<>>
  /\ ui' = [UiHost EXCEPT !.pc = "GetMessageW", !.h = webview,
                          !.blocking = 1]
  /\ last' = [Step("GetMessageW") EXCEPT !.h = webview, !.blocking = 1]
  /\ UNCHANGED <<cwebview, host, queue, data, worker, executed, invoked,
                 crashed>>

\* a webview_loop call up to the point where the window procedure has
\* called the function of a task and the function has not returned yet
task_begin(webview, blocking) ==
  /\ ~crashed
  /\ queue # <<>>
  /\ \/ ui.pc = "host"
     \/ ui.pc = "GetMessageW" /\ ui.h = webview /\ blocking > 0
  /\ LET r == IF blocking > 0 THEN GetMessageW(queue) ELSE PeekMessageW(queue)
         msg == r.msg
     IN /\ r.ret >= 0
        /\ loop_ret(msg) = 0
        /\ IsTask(msg)
        /\ queue' = r.queue
        /\ executed' = Append(executed, TaskCall(msg.lParam))
        /\ data' = [data EXCEPT ![msg.lParam].st = "running"]
        /\ ui' = [pc |-> "task", h |-> webview, blocking |-> blocking,
                  d |-> msg.lParam]
        /\ last' = [Step("task") EXCEPT
                      !.h = webview, !.blocking = blocking,
                      !.msg = msg.message]
  /\ UNCHANGED <<cwebview, host, worker, invoked, crashed>>

\* the function of the task returns: the window procedure drops the
\* DispatchData and webview_loop returns 0
task_end ==
  /\ ~crashed
  /\ ui.pc = "task"
  /\ data' = [data EXCEPT ![ui.d].st = "freed"]
  /\ ui' = UiHost
  /\ last' = [Step("webview_loop") EXCEPT
                !.h = ui.h, !.blocking = ui.blocking,
                !.msg = WM_WEBVIEW_DISPATCH, !.ret = 0, !.handled = TRUE]
  /\ UNCHANGED <<cwebview, host, queue, worker, executed, invoked, crashed>>

(* ----------------------------- webview_eval --------------------------- *)

\* positions of the calls of a kind among the calls a CWebView received
Calls(h, fn) == {i \in 1..Len(host[h]) : host[h][i].fn = fn}

\* js.to_str().expect("js is not valid utf8") panics; otherwise the WebView
\* receives eval(js) and the call returns 0
webview_eval(webview, js) ==
  /\ ~crashed
  /\ ui.pc # "GetMessageW"
  /\ cwebview[webview].st = "live"
  /\ Cardinality(Calls(webview, "eval")) < MaxEval
  /\ IF ~is_utf8(js)
     THEN \E o \in PanicOutcomes :
          /\ crashed' = TRUE
          /\ last' = [Step("webview_eval") EXCEPT
                        !.h = webview, !.js = js, !.outcome = o]
          /\ UNCHANGED host
     ELSE /\ host' = [host EXCEPT ![webview] = Append(@, HostCall("eval", js))]
          /\ last' = [Step("webview_eval") EXCEPT
                        !.h = webview, !.js = js, !.ret = 0]
          /\ UNCHANGED crashed
  /\ UNCHANGED <<cwebview, queue, data, worker, executed, invoked>>
  /\ UNCHANGED ui

(* ------------------------ webview_exit, webview_free ------------------ *)

\* DestroyWindow: the window is gone and the messages posted to it are
\* removed from the queue of its thread
DestroyWindow(q, hwnd) == SelectSeq(q, LAMBDA m : m.hwnd # hwnd)

\* the DispatchData boxes carried by the messages DestroyWindow removes
Flushed(q, hwnd) ==
  {q[i].lParam : i \in {j \in 1..Len(q) :
      q[j].hwnd = hwnd /\ q[j].message = WM_WEBVIEW_DISPATCH}}

\* webview_exit dropping the box as well
webview_exit_free(webview) ==
  /\ ~crashed
  /\ ui.pc # "GetMessageW"
  /\ cwebview[webview].st = "live"
  /\ cwebview' = [cwebview EXCEPT ![webview].st = "freed"]
  /\ host' = [host EXCEPT ![webview] =
                @ \o <<HostCall("DestroyWindow", <<>>),
                       HostCall("OleUninitialize", <<>>),
                       HostCall("drop", <<>>)>>]
  /\ queue' = DestroyWindow(queue, webview)
  /\ data' = [d \in DataIds |->
                IF d \in Flushed(queue, webview)
                THEN [data[d] EXCEPT !.st = "dropped"] ELSE data[d]]
  /\ last' = [Step("webview_exit") EXCEPT !.h = webview]
  /\ UNCHANGED <<worker, executed, invoked, crashed>>
  /\ UNCHANGED ui

\* the calls of the tasks waiting in the queue for a window, in order
RECURSIVE PendingCalls(_, _)
PendingCalls(q, hwnd) ==
  IF q = <<>> THEN <<>>
  ELSE IF Head(q).hwnd = hwnd /\ Head(q).message = WM_WEBVIEW_DISPATCH
       THEN <<[id |-> Head(q).lParam,
               webview |-> data[Head(q).lParam].target,
               func |-> data[Head(q).lParam].func,
               arg |-> data[Head(q).lParam].arg]>>
              \o PendingCalls(Tail(q), hwnd)
       ELSE PendingCalls(Tail(q), hwnd)

\* webview_exit running the tasks that wait for the window before it
\* destroys it
webview_exit_drain(webview) ==
  /\ ~crashed
  /\ ui.pc # "GetMessageW"
  /\ cwebview[webview].st = "live"
  /\ cwebview' = [cwebview EXCEPT ![webview].st = "exited"]
  /\ host' = [host EXCEPT ![webview] =
                Append(Append(@, HostCall("DestroyWindow", <<>>)),
                       HostCall("OleUninitialize", <<>>))]
  /\ queue' = DestroyWindow(queue, webview)
  /\ executed' = executed \o PendingCalls(queue, webview)
  /\ data' = [d \in DataIds |->
                IF d \in Flushed(queue, webview)
                THEN [data[d] EXCEPT !.st = "freed"] ELSE data[d]]
  /\ last' = [Step("webview_exit") EXCEPT !.h = webview]
  /\ UNCHANGED <<worker, invoked, crashed>>
  /\ UNCHANGED ui

webview_exit(webview) ==
  /\ ~crashed
  /\ ui.pc # "GetMessageW"
  /\ cwebview[webview].st = "live"
  /\ cwebview' = [cwebview EXCEPT ![webview].st = "exited"]
  /\ host' = [host EXCEPT ![webview] =
                Append(Append(@, HostCall("DestroyWindow", <<>>)),
                       HostCall("OleUninitialize", <<>>))]
  /\ queue' = DestroyWindow(queue, webview)
  /\ data' = [d \in DataIds |->
                IF d \in Flushed(queue, webview)
                THEN [data[d] EXCEPT !.st = "dropped"] ELSE data[d]]
  /\ last' = [Step("webview_exit") EXCEPT !.h = webview]
  /\ UNCHANGED <<worker, executed, invoked, crashed>>
  /\ UNCHANGED ui

\* Box::from_raw(webview) dropped; the host calls it after webview_exit and
\* when no thread is inside webview_dispatch for this CWebView
webview_free(webview) ==
  /\ ~crashed
  /\ ui.pc # "GetMessageW"
  /\ cwebview[webview].st = "exited"
  /\ \A t \in Threads : worker[t] # 0 => data[worker[t]].target # webview
  /\ cwebview' = [cwebview EXCEPT ![webview].st = "freed"]
  /\ host' = [host EXCEPT ![webview] = Append(@, HostCall("drop", <<>>))]
  /\ last' = [Step("webview_free") EXCEPT !.h = webview]
  /\ UNCHANGED <<queue, data, worker, executed, invoked, crashed>>
  /\ UNCHANGED ui

(* ------------------------- webview_get_user_data --------------------- *)

\* webview_get_user_data returning the pointer the closure holds
webview_get_user_data_ptr(webview) ==
  /\ ~crashed
  /\ cwebview[webview].st \in {"live", "exited"}
  /\ last' = [Step("webview_get_user_data") EXCEPT
                !.h = webview, !.ret = cwebview[webview].cb_ptr]
  /\ UNCHANGED <<cwebview, host, queue, data, worker, executed, invoked,
                 crashed>>
  /\ UNCHANGED ui

\* (*webview).userdata: a read of the box, which exists until webview_free
webview_get_user_data(webview) ==
  /\ ~crashed
  /\ cwebview[webview].st \in {"live", "exited"}
  /\ last' = [Step("webview_get_user_data") EXCEPT
                !.h = webview, !.ret = cwebview[webview].userdata]
  /\ UNCHANGED <<cwebview, host, queue, data, worker, executed, invoked,
                 crashed>>
  /\ UNCHANGED ui

(* ------------------------- script-to-host callback -------------------- *)

\* CString::new(result).unwrap() panics on an interior NUL
closure_panics(result) == \E i \in 1..Len(result) : result[i] = 0

\* the closure passing the CWebView it is stored in, which moved when the box
\* was made, instead of the pointer webview_new returned
closure_call_stale(ctl, result) ==
  [ctl |-> ctl, cb |-> cwebview[ctl].cb_fn, webview |-> NULL, arg |-> result]

\* the call external_invoke_cb(wv_ptr, c_result.as_ptr()) made by the closure
\* that webview_new registered for the control ctl
closure_call(ctl, result) ==
  [ctl |-> ctl, cb |-> cwebview[ctl].cb_fn, webview |-> cwebview[ctl].cb_ptr,
   arg |-> result]

\* the control of a CWebView calls the registered callback with a string
external_invoke(ctl, result) ==
  /\ ~crashed
  /\ cwebview[ctl].st = "live"
  /\ cwebview[ctl].cb_fn # NULL
  /\ Len(invoked) < MaxInvoke
  /\ IF closure_panics(result)
     THEN \E o \in PanicOutcomes :
          /\ crashed' = TRUE
          /\ last' = [Step("external_invoke") EXCEPT
                        !.h = ctl, !.result = result, !.outcome = o]
          /\ UNCHANGED invoked
     ELSE /\ invoked' = Append(invoked, closure_call(ctl, result))
          /\ last' = [Step("external_invoke") EXCEPT
                        !.h = ctl, !.result = result]
          /\ UNCHANGED crashed
  /\ UNCHANGED <<cwebview, host, queue, data, worker, executed>>
  /\ UNCHANGED ui

(* ------------------------------ environment --------------------------- *)

\* number of messages in the queue that were not posted by webview_dispatch
OsPending(q) ==
  Cardinality({i \in 1..Len(q) : q[i].message # WM_WEBVIEW_DISPATCH})

InsertAt(q, i, m) == SubSeq(q, 1, i) \o <<m>> \o SubSeq(q, i + 1, Len(q))

\* the OS delivers a native message (paint, input) for a window; where it
\* lands among the posted messages is up to the OS
native_event(hwnd) ==
  /\ ~crashed
  /\ IsWindow(hwnd)
  /\ OsPending(queue) < MaxOsPending
  /\ \E i \in 0..Len(queue) :
       queue' = InsertAt(queue, i, Msg(hwnd, WM_PAINT, 0))
  /\ last' = Step("os")
  /\ UNCHANGED <<cwebview, host, data, worker, executed, invoked,
                 crashed>>
  /\ UNCHANGED ui

\* a native message that arrives behind the messages already posted:
\* GetMessageW returns posted messages before input and paint messages, so
\* a native message does not overtake a task that waits in the queue
native_posted(hwnd) ==
  /\ native_event(hwnd)
  /\ queue' = Append(queue, Msg(hwnd, WM_PAINT, 0))

\* the termination signal arrives in the queue of the UI thread
post_quit ==
  /\ ~crashed
  /\ OsPending(queue) < MaxOsPending
  /\ queue' = Append(queue, Msg(NULL, WM_QUIT, 0))
  /\ last' = Step("os")
  /\ UNCHANGED <<cwebview, host, data, worker, executed, invoked,
                 crashed>>
  /\ UNCHANGED ui

(* --------------------------- specifications --------------------------- *)

\* "h"
PlainUrl == <<104>>
\* "data:text/html,%3C"
InlineUrl == DATA_URL_PREFIX \o <<37, 51, 67>>
\* "https://example.com"
ExampleUrl ==
  <<104, 116, 116, 112, 115, 58, 47, 47, 101, 120, 97, 109, 112, 108, 101,
    46, 99, 111, 109>>
\* "data:text/html,%3Ch1%3Ehi%3C%2Fh1%3E"
ExampleInlineUrl ==
  DATA_URL_PREFIX \o
  <<37, 51, 67, 104, 49, 37, 51, 69, 104, 105, 37, 51, 67, 37, 50, 70, 104,
    49, 37, 51, 69>>
\* "<h1>hi</h1>"
ExampleContent == <<60, 104, 49, 62, 104, 105, 60, 47, 104, 49, 62>>

\* bytes the generated urls are made of: % 3 C F and the two bytes of U+00E9
TailBytes == {37, 51, 67, 70, 195, 169}

RECURSIVE SeqsUpTo(_, _)
SeqsUpTo(S, n) ==
  IF n = 0 THEN {<<>>}
  ELSE LET shorter == SeqsUpTo(S, n - 1)
       IN shorter \cup {Append(s, b) : s \in shorter, b \in S}

\* "data:text/html," and two near misses: upper-case first letter, no comma
Heads ==
  {DATA_URL_PREFIX,
   <<68>> \o Tail(DATA_URL_PREFIX),
   SubSeq(DATA_URL_PREFIX, 1, Len(DATA_URL_PREFIX) - 1),
   PlainUrl}

Urls ==
  {hd \o tl : hd \in Heads, tl \in SeqsUpTo(TailBytes, MaxTail)}
    \cup {ExampleUrl, ExampleInlineUrl}

\* "t" and a title that is not UTF-8
Titles == {<<116>>, <<255>>}

\* what webview_new meets: the three steps of fix_ie_compat_mode, and
\* WebView::initialize, which succeeds ("ok"), fails without a panic ("fail":
\* it returns nothing webview_new looks at) or panics ("panic")
Envs ==
  [exe : BOOLEAN, subkey : BOOLEAN, setval : BOOLEAN,
   init : {"ok", "fail", "panic"}]

\* a host: its external_invoke_cb and the userdata that goes with it
Hosts == {<<31, 41>>, <<32, 42>>}
\* "ping" and a string with an interior NUL
Results == {<<112, 105, 110, 103>>, <<112, 0, 103>>}

\* the task a thread submits: its function and the argument that goes with it
TaskOf(t) == <<50 + t, 60 + t>>

\* webview_new("t", "h", cb, userdata) in an environment where it succeeds
new_any == webview_new(<<116>>, PlainUrl, 31, 41, GoodEnv)

\* the handle the host steps the loop with: the first CWebView once it has
\* been created
MainHandle == IF cwebview[1].st = "unalloc" THEN NULL ELSE 1

dispatch_any ==
  \E t \in Threads, h \in Handles :
    dispatch_box(t, h, TaskOf(t)[1], TaskOf(t)[2])

Next ==
  \/ new_any
  \/ dispatch_any
  \/ \E t \in Threads : dispatch_post(t)
  \/ \E b \in {0, 1} : webview_loop(MainHandle, b)
  \/ \E h \in Handles : webview_exit(h)
  \/ \E h \in Handles : webview_free(h)
  \/ \E h \in Handles : native_event(h)
  \/ post_quit

Spec == Init /\ [][Next]_vars

\* the last call created the first CWebView, from "h" without any failure
PlainCreated ==
  /\ last.op = "webview_new"
  /\ last.ret # NULL
  /\ last.url = PlainUrl
  /\ last.title = <<116>>
  /\ last.env = GoodEnv
  /\ \A h \in Handles \ {last.ret} : cwebview[h].st = "unalloc"

\* webview_new on any input, as the first call of the host or right after
\* such a first creation
create_any ==
  /\ last.op = "init" \/ PlainCreated
  /\ \E title \in Titles, url \in Urls, host_ \in Hosts, env \in Envs :
       webview_new(title, url, host_[1], host_[2], env)

NextCreate ==
  \/ create_any
  \/ \E h \in Handles, s \in Results : external_invoke(h, s)

SpecCreate == Init /\ [][NextCreate]_vars

\* U+00E9 and a byte string that is not UTF-8
Scripts == {<<195, 169>>, <<255>>}

\* webview_new("t", "h", cb, userdata) by one of the hosts
host_new ==
  \E host_ \in Hosts :
    webview_new(<<116>>, PlainUrl, host_[1], host_[2], GoodEnv)

\* webview_dispatch of the first thread
host_dispatch ==
  \E h \in Handles : dispatch_box(1, h, TaskOf(1)[1], TaskOf(1)[2])

\* the calls of a host on the CWebViews it holds, and the scripts that call
\* back
NextHost ==
  \/ host_new
  \/ host_dispatch
  \/ dispatch_post(1)
  \/ \E h \in Handles, b \in {0, 1} :
       cwebview[h].st \in {"live", "exited"} /\ webview_loop(h, b)
  \/ \E h \in Handles, s \in Results : external_invoke(h, s)
  \/ \E h \in Handles, js \in Scripts : webview_eval(h, js)
  \/ \E h \in Handles : webview_get_user_data(h)
  \/ \E h \in Handles : webview_exit(h)

SpecHost == Init /\ [][NextHost]_vars

\* the host keeps calling webview_loop(webview, 1) while threads submit
\* tasks, native messages and WM_QUIT arrive and windows are destroyed
NextLive ==
  \/ new_any
  \/ dispatch_any
  \/ \E t \in Threads : dispatch_post(t)
  \/ webview_loop(MainHandle, 1)
  \/ \E h \in Handles : native_posted(h)
  \/ post_quit
  \/ \E h \in Handles : webview_exit(h)

\* the UI thread does not stop calling webview_loop(webview, 1)
SpecLive ==
  /\ Init
  /\ [][NextLive]_vars
  /\ WF_vars(webview_loop(MainHandle, 1))

\* webview_dispatch of a thread, with its task or without a function
thread_dispatch ==
  \E t \in Threads, h \in Handles :
    \E f \in {NULL, TaskOf(t)[1]} : dispatch_box(t, h, f, TaskOf(t)[2])

\* webview_dispatch of the UI thread, with its task or without a function
ui_dispatch ==
  \E h \in Handles, f \in {NULL, TaskOf(0)[1]} :
    dispatch_ui(h, f, TaskOf(0)[2])

\* the threads of the host: the UI thread steps the loop, waits in it, runs
\* tasks and submits tasks; the other threads submit tasks
NextThreads ==
  \/ new_any
  \/ thread_dispatch
  \/ \E t \in Threads : dispatch_post(t)
  \/ ui_dispatch
  \/ loop_wait(MainHandle)
  \/ \E b \in {0, 1} : webview_loop(MainHandle, b)
  \/ \E b \in {0, 1} : task_begin(MainHandle, b)
  \/ task_end

SpecThreads == Init /\ [][NextThreads]_vars

(* ------------------------- dispatch and message loop ------------------ *)

\* webview_dispatch has returned for this DispatchData
Completed(d) ==
  data[d].st \in {"queued", "lost", "dropped", "running", "freed"}

\* PostMessageW accepted the message that carries this DispatchData
Posted(d) == data[d].st \in {"queued", "dropped", "running", "freed"}

DataKey(d) == <<data[d].target, data[d].func, data[d].arg>>
CallKey(c) == <<c.webview, c.func, c.arg>>

\* the multiset of (handle, function, argument) of a set of DispatchData
BagOfData(S) ==
  [k \in {DataKey(d) : d \in S} |->
     Cardinality({d \in S : DataKey(d) = k})]

EnqueuedBag == BagOfData({d \in DataIds : Completed(d)})
PostedBag == BagOfData({d \in DataIds : Posted(d)})

ExecutedBag ==
  [k \in {CallKey(executed[i]) : i \in 1..Len(executed)} |->
     Cardinality({i \in 1..Len(executed) : CallKey(executed[i]) = k})]

\* no dispatch message waits in the queue and no webview_dispatch is under way
Drained ==
  /\ \A i \in 1..Len(queue) : queue[i].message # WM_WEBVIEW_DISPATCH
  /\ \A t \in Threads : worker[t] = 0

\* no window has been destroyed
WindowsAlive == \A h \in Handles : cwebview[h].st \in {"unalloc", "live"}

\* C1 as stated: the executed tasks never exceed the enqueued ones and, with
\* the windows alive and the queue drained, every task webview_dispatch was
\* called with has been executed.
C1_AllEnqueuedExecuted ==
  /\ ExecutedBag \sqsubseteq EnqueuedBag
  /\ (Drained /\ WindowsAlive) => ExecutedBag = EnqueuedBag

\* C1 (amended): no DispatchData is executed twice; every executed call is
\* (data.func)(data.target, data.arg) of a posted DispatchData; the executed
\* tasks never exceed the posted ones and, with the windows alive and the
\* queue drained, equal the tasks whose post succeeded.
C1_PostedExecutedOnce ==
  /\ \A i, j \in 1..Len(executed) :
       executed[i].id = executed[j].id => i = j
  /\ \A i \in 1..Len(executed) :
       /\ Posted(executed[i].id)
       /\ CallKey(executed[i]) = DataKey(executed[i].id)
  /\ ExecutedBag \sqsubseteq PostedBag
  /\ (Drained /\ WindowsAlive) => ExecutedBag = PostedBag

\* tasks of both threads, one of them submitted twice, all executed
C1_Witness ==
  /\ Drained
  /\ WindowsAlive
  /\ Len(executed) = 3
  /\ \E i, j \in 1..3 :
       data[executed[i].id].thread # data[executed[j].id].thread
  /\ \E k \in DOMAIN ExecutedBag : ExecutedBag[k] = 2

\* C2: when a thread posted A and then B to the same handle and B has been
\* executed, A was executed before B.
C2_Fifo ==
  \A i \in 1..Len(executed) : \A a \in DataIds :
    LET b == executed[i].id IN
      ( /\ a < b
        /\ data[a].thread = data[b].thread
        /\ data[a].target = data[b].target
        /\ Posted(a) )
      => \E j \in 1..(i - 1) : executed[j].id = a

\* A and B of one thread executed in order, with a task of the other thread
\* between them
C2_Witness ==
  /\ Len(executed) = 3
  /\ executed[1].id < executed[3].id
  /\ data[executed[1].id].thread = data[executed[3].id].thread
  /\ executed[1].webview = executed[3].webview
  /\ data[executed[2].id].thread # data[executed[1].id].thread

PaintMsg == Msg(1, WM_PAINT, 0)
QuitMsg == Msg(NULL, WM_QUIT, 0)

C4_OneMessage ==
  [][ last'.op = "webview_loop" =>
        /\ \/ queue' = queue
           \/ queue # <<>> /\ queue' = Tail(queue)
        /\ \/ executed' = executed
           \/ /\ Len(executed') = Len(executed) + 1
              /\ SubSeq(executed', 1, Len(executed)) = executed
        /\ last'.blocking > 0 =>
             /\ queue # <<>>
             /\ queue' = Tail(queue)
             /\ last'.msg = Head(queue).message
        /\ (last'.blocking = 0 /\ queue = <<>>) =>
             /\ queue' = queue
             /\ executed' = executed
             /\ data' = data
             /\ last'.msg = -1
             /\ ~last'.handled
    ]_vars

\* a blocking call ran one task and left another one in the queue
C4_Witness ==
  /\ last.op = "webview_loop"
  /\ last.blocking = 1
  /\ last.msg = WM_WEBVIEW_DISPATCH
  /\ last.handled
  /\ \E i \in 1..Len(queue) : queue[i].message = WM_WEBVIEW_DISPATCH

\* C5: webview_loop returns 1 exactly when the message it removed is WM_QUIT;
\* that call hands nothing to a window procedure, runs no task and leaves the
\* messages behind WM_QUIT in the queue.
C5_QuitOnly ==
  [][ last'.op = "webview_loop" =>
        /\ last'.ret = 1 <=> (queue # <<>> /\ Head(queue).message = WM_QUIT)
        /\ last'.ret = 1 =>
             /\ last'.msg = WM_QUIT
             /\ ~last'.handled
             /\ executed' = executed
             /\ data' = data
             /\ queue' = Tail(queue)
    ]_vars

\* the call returned 1 and a task posted after WM_QUIT is still queued
C5_Witness ==
  /\ last.op = "webview_loop"
  /\ last.ret = 1
  /\ last.msg = WM_QUIT
  /\ queue # <<>>
  /\ queue[1].message = WM_WEBVIEW_DISPATCH
  /\ data[queue[1].lParam].st = "queued"

(* ------------------------------- creation ----------------------------- *)

\* the last call was a webview_new that returned a handle
Created ==
  /\ last.op = "webview_new"
  /\ last.outcome = "return"
  /\ last.ret # NULL

\* the url begins with "data:text/html,"
IsInline(url) ==
  /\ Len(url) >= Len(DATA_URL_PREFIX)
  /\ SubSeq(url, 1, Len(DATA_URL_PREFIX)) = DATA_URL_PREFIX

\* what follows the prefix
Remainder(url) == SubSeq(url, Len(DATA_URL_PREFIX) + 1, Len(url))

\* remainders and the content they stand for: "%3C" is "<", "%3" and "%"
\* stand for themselves, "%C3" is the byte C3, "3%3CC" is "3<C"
DecodeTable ==
  {<<<<37, 51, 67>>, <<60>>>>,
   <<<<37, 51>>, <<37, 51>>>>,
   <<<<37>>, <<37>>>>,
   <<<<37, 67, 51>>, <<195>>>>,
   <<<<51, 37, 51, 67, 67>>, <<51, 60, 67>>>>,
   <<Remainder(ExampleInlineUrl), ExampleContent>>}

\* C6: for a url with the prefix "data:text/html," the WebView receives one
\* write whose content is the percent-decoded remainder and no navigate with
\* the url; for any other url one navigate with that url and no write.
C6_Routing ==
  Created =>
    LET h == last.ret
        url == last.url
    IN IF IsInline(url)
       THEN /\ Cardinality(Calls(h, "write")) = 1
            /\ \A i \in Calls(h, "write") :
                 /\ host[h][i].arg = percent_decode_str(Remainder(url))
                 /\ \A p \in DecodeTable :
                      Remainder(url) = p[1] => host[h][i].arg = p[2]
            /\ \A i \in Calls(h, "navigate") : host[h][i].arg # url
       ELSE /\ Calls(h, "write") = {}
            /\ Cardinality(Calls(h, "navigate")) = 1
            /\ \A i \in Calls(h, "navigate") : host[h][i].arg = url

\* "data:text/html,%3Ch1%3Ehi%3C%2Fh1%3E" was written as "<h1>hi</h1>"
C6_Witness ==
  /\ Created
  /\ last.url = ExampleInlineUrl
  /\ \E i \in Calls(last.ret, "write") :
       host[last.ret][i].arg = ExampleContent

\* C7 as stated: a CWebView receives a navigate call or a write call, never
\* both.
C7_Exclusive ==
  \A h \in Handles : Calls(h, "navigate") = {} \/ Calls(h, "write") = {}

\* C7 (amended): a CWebView receives exactly one navigate and at most one
\* write: navigate("about:blank") followed by the write for an inline-content
\* url, navigate(url) alone for any other; a write never comes with a
\* navigate to the url of the host.
C7_InlineOrNavigate ==
  \A h \in Handles :
    host[h] # <<>> =>
      /\ Cardinality(Calls(h, "navigate")) = 1
      /\ Cardinality(Calls(h, "write")) <= 1
      /\ \A w \in Calls(h, "write") : \A n \in Calls(h, "navigate") :
           /\ n < w
           /\ host[h][n].arg = ABOUT_BLANK
      /\ (Created /\ last.ret = h) =>
           /\ Calls(h, "write") # {} <=> IsInline(last.url)
           /\ \A n \in Calls(h, "navigate") :
                IF Calls(h, "write") = {}
                THEN host[h][n].arg = last.url
                ELSE host[h][n].arg # last.url

\* an inline-content url led to navigate("about:blank") and a write of
\* content that is not plain ASCII
C7_Witness ==
  /\ Created
  /\ IsInline(last.url)
  /\ \E n \in Calls(last.ret, "navigate"), w \in Calls(last.ret, "write") :
       /\ host[last.ret][n].arg = ABOUT_BLANK
       /\ host[last.ret][w].arg = <<195, 169>>

\* C8: when fix_ie_compat_mode fails, webview_new returns NULL and nothing
\* else changed: no CWebView, no call on a Window or WebView, no callback.
C8_FixFailed ==
  [][ ( /\ last'.op = "webview_new"
        /\ ~(last'.env.exe /\ last'.env.subkey /\ last'.env.setval) )
      => /\ last'.ret = NULL
         /\ last'.outcome = "return"
         /\ cwebview' = cwebview
         /\ host' = host
         /\ queue' = queue
         /\ invoked' = invoked
         /\ crashed' = crashed
    ]_vars

\* set_value failed in a webview_new that followed a successful one
C8_Witness ==
  /\ last.op = "webview_new"
  /\ last.env.exe
  /\ last.env.subkey
  /\ ~last.env.setval
  /\ last.ret = NULL
  /\ \E h \in Handles : cwebview[h].st = "live"

\* an input or an environment in which webview_new is to fail
BadInput ==
  \/ ~is_utf8(last.title)
  \/ ~is_utf8(last.url)
  \/ IsInline(last.url) /\ ~is_utf8(percent_decode_str(Remainder(last.url)))
  \/ last.env.init # "ok"

\* C9: on text that is not UTF-8 and on a failed initialization webview_new
\* returns NULL to the host.
C9_NullOnFailure ==
  (last.op = "webview_new" /\ BadInput)
    => (last.outcome = "return" /\ last.ret = NULL)

\* first position of a call of a kind, 0 when there is none
First(h, fn) ==
  IF Calls(h, fn) = {} THEN 0
  ELSE CHOOSE i \in Calls(h, fn) : \A j \in Calls(h, fn) : i <= j

\* C10: set_callback is called once, after initialize, navigate/write,
\* ShowWindow and Box::into_raw; every call of an external_invoke_cb comes
\* from the control of a CWebView that webview_new returned and passes the
\* pointer to that CWebView and its own callback function.
C10_CallbackAfterPointer ==
  /\ \A h \in Handles :
       host[h] # <<>> =>
         /\ Cardinality(Calls(h, "set_callback")) = 1
         /\ Cardinality(Calls(h, "Box::into_raw")) = 1
         /\ First(h, "initialize") > 0
         /\ First(h, "ShowWindow") > First(h, "initialize")
         /\ \A i \in Calls(h, "navigate") \cup Calls(h, "write") :
              First(h, "initialize") < i /\ i < First(h, "ShowWindow")
         /\ First(h, "Box::into_raw") > First(h, "ShowWindow")
         /\ First(h, "set_callback") > First(h, "Box::into_raw")
         /\ Created /\ last.ret = h =>
              First(h, "set_callback") = Len(host[h])
  /\ \A i \in 1..Len(invoked) :
       /\ invoked[i].ctl \in Handles
       /\ cwebview[invoked[i].ctl].st # "unalloc"
       /\ invoked[i].webview = invoked[i].ctl
       /\ invoked[i].cb = cwebview[invoked[i].ctl].external_invoke_cb

\* the script of the second CWebView called the host
C10_Witness ==
  /\ invoked # <<>>
  /\ invoked[1].ctl # 1
  /\ invoked[1].webview = invoked[1].ctl
  /\ cwebview[1].st = "live"
  /\ cwebview[1].external_invoke_cb # invoked[1].cb

(* ------------------------------ teardown ------------------------------ *)

\* the DispatchData boxes that have been executed
ExecutedIds == {executed[i].id : i \in 1..Len(executed)}

\* positions of the calls of a kind in a list of calls
CallsIn(log, fn) == {i \in 1..Len(log) : log[i].fn = fn}

\* C13: webview_exit destroys the window and uninitializes OLE and keeps the
\* box with its callback, userdata and WebView; webview_free drops the box.
\* A freed CWebView has had its window destroyed, then its box dropped, and
\* no message for its window is left.
C13_Teardown ==
  [][ /\ last'.op = "webview_exit" =>
           LET h == last'.h IN
           /\ cwebview[h].st = "live"
           /\ cwebview' = [cwebview EXCEPT ![h].st = "exited"]
           /\ host'[h] = host[h] \o <<HostCall("DestroyWindow", <<>>),
                                       HostCall("OleUninitialize", <<>>)>>
           /\ \A i \in 1..Len(queue') : queue'[i].hwnd # h
      /\ last'.op = "webview_free" =>
           LET h == last'.h IN
           /\ cwebview[h].st = "exited"
           /\ cwebview'[h].st = "freed"
           /\ host'[h] = Append(host[h], HostCall("drop", <<>>))
      /\ \A h \in Handles :
           /\ cwebview'[h].st = "live" =>
                /\ CallsIn(host'[h], "DestroyWindow") = {}
                /\ CallsIn(host'[h], "drop") = {}
           /\ cwebview'[h].st = "exited" =>
                /\ Cardinality(CallsIn(host'[h], "DestroyWindow")) = 1
                /\ Cardinality(CallsIn(host'[h], "OleUninitialize")) = 1
                /\ CallsIn(host'[h], "drop") = {}
                /\ cwebview'[h].external_invoke_cb # NULL
                /\ cwebview'[h].userdata # NULL
           /\ cwebview'[h].st = "freed" =>
                /\ Cardinality(CallsIn(host'[h], "drop")) = 1
                /\ \E i \in CallsIn(host'[h], "DestroyWindow") :
                     \A j \in CallsIn(host'[h], "drop") : i < j
                /\ \A i \in 1..Len(queue') : queue'[i].hwnd # h
    ]_vars

\* the first CWebView was created, exited and freed while the second one
\* keeps its window
C13_Witness ==
  /\ last.op = "webview_free"
  /\ last.h = 1
  /\ cwebview[1].st = "freed"
  /\ Calls(1, "DestroyWindow") # {}
  /\ Calls(1, "drop") # {}
  /\ cwebview[2].st = "live"

\* C14: when PostMessageW fails (window destroyed or queue full) the
\* DispatchData is left as it is for good: its function is not called, by
\* webview_dispatch or later, the box and its argument are not touched, and
\* webview_dispatch returns as it does after a successful post.
C14_PostFailureLeaks ==
  [][ /\ \A t \in Threads :
           (worker[t] # 0 /\ worker'[t] = 0) =>
             LET d == worker[t] IN
             /\ last' = [Step("webview_dispatch") EXCEPT
                           !.func = data[d].func]
             /\ (~IsWindow(data[d].target) \/ Len(queue) >= QueueLimit) =>
                  /\ data'[d] = [data[d] EXCEPT !.st = "lost"]
                  /\ queue' = queue
                  /\ executed' = executed
                  /\ crashed' = crashed
      /\ \A d \in DataIds :
           data[d].st = "lost" =>
             /\ data'[d] = data[d]
             /\ d \notin {executed'[i].id : i \in 1..Len(executed')}
             /\ \A i \in 1..Len(queue') : queue'[i].lParam # d
    ]_vars

\* one task was lost to a full queue while its window exists, another one
\* to a destroyed window, and a task that was posted has run
C14_Witness ==
  /\ \E d, e \in DataIds :
       /\ data[d].st = "lost"
       /\ cwebview[data[d].target].st = "live"
       /\ data[e].st = "lost"
       /\ cwebview[data[e].target].st = "exited"
  /\ executed # <<>>
  /\ queue = <<>>

\* C17: webview_exit runs no task; a DispatchData that waits in the queue
\* when webview_exit destroys its window is removed with the window's
\* messages and is never executed afterwards, while later webview_loop calls
\* go on running the tasks of other windows.
C17_PendingAtExit ==
  [][ /\ last'.op = "webview_exit" =>
           /\ executed' = executed
           /\ \A d \in DataIds :
                (data[d].st = "queued" /\ data[d].target = last'.h) =>
                  /\ d \notin ExecutedIds
                  /\ data'[d] = [data[d] EXCEPT !.st = "dropped"]
      /\ \A d \in DataIds :
           data[d].st = "dropped" =>
             /\ data'[d] = data[d]
             /\ d \notin {executed'[i].id : i \in 1..Len(executed')}
             /\ \A i \in 1..Len(queue') : queue'[i].lParam # d
      /\ \A d \in DataIds :
           data'[d].st = "queued" => cwebview'[data'[d].target].st = "live"
    ]_vars

\* a task was pending when its window was destroyed; a later webview_loop
\* call ran a task of the other window and the queue is empty
C17_Witness ==
  /\ last.op = "webview_loop"
  /\ last.handled
  /\ queue = <<>>
  /\ \E d \in DataIds :
       /\ data[d].st = "dropped"
       /\ d \notin ExecutedIds
       /\ \E e \in ExecutedIds : e > d /\ data[e].target # data[d].target

(* ------------------------- calls of a host ---------------------------- *)

\* C11: a script-to-host call with payload s makes the closure call the
\* external_invoke_cb given to webview_new once, with the pointer to the
\* CWebView and with s, byte for byte.
C11_RoundTrip ==
  last.op = "external_invoke" =>
    /\ last.outcome = "return"
    /\ ~crashed
    /\ invoked # <<>>
    /\ LET c == invoked[Len(invoked)]
       IN /\ c.ctl = last.h
          /\ c.webview = last.h
          /\ c.arg = last.result
          /\ c.cb = cwebview[last.h].external_invoke_cb

\* C12: webview_new stores the userdata it was given, no later call of the
\* host, task or callback changes the stored pointer while the box exists,
\* and webview_get_user_data returns it and changes nothing.
C12_PureAccessor ==
  [][ /\ (last'.op = "webview_new" /\ last'.ret # NULL) =>
           /\ cwebview[last'.ret].st = "unalloc"
           /\ cwebview'[last'.ret].userdata = last'.userdata
      /\ \A h \in Handles :
           cwebview[h].st \in {"live", "exited"} =>
             cwebview'[h].userdata = cwebview[h].userdata
      /\ last'.op = "webview_get_user_data" =>
           /\ last'.outcome = "return"
           /\ last'.ret = cwebview[last'.h].userdata
           /\ cwebview' = cwebview
           /\ host' = host
           /\ queue' = queue
           /\ data' = data
           /\ worker' = worker
           /\ executed' = executed
           /\ invoked' = invoked
           /\ crashed' = crashed
    ]_vars

\* the userdata of the second CWebView, which differs from the first one's,
\* is returned after a task ran, a script called back and a script was
\* evaluated
C12_Witness ==
  /\ last.op = "webview_get_user_data"
  /\ last.h = 2
  /\ cwebview[2].st = "live"
  /\ last.ret = cwebview[2].userdata
  /\ last.ret # cwebview[1].userdata
  /\ last.ret # NULL
  /\ executed # <<>>
  /\ invoked # <<>>
  /\ Calls(2, "eval") # {}

\* C18: webview_eval returns to the host with a status; a script that is not
\* UTF-8 reaches no WebView, a script that is UTF-8 is the WebView's latest
\* eval request and the status is 0.
C18_EvalStatus ==
  last.op = "webview_eval" =>
    /\ last.outcome = "return"
    /\ ~crashed
    /\ IF is_utf8(last.js)
       THEN /\ last.ret = 0
            /\ host[last.h][Len(host[last.h])] = HostCall("eval", last.js)
       ELSE \A i \in Calls(last.h, "eval") : host[last.h][i].arg # last.js

\* C19: a webview_loop call takes the first message of the queue whichever
\* window it was posted to and whichever handle the call was given; the task
\* it runs is called with the target of its DispatchData.
C19_LoopIgnoresHandle ==
  [][ last'.op = "webview_loop" =>
        /\ queue # <<>> => queue' = Tail(queue)
        /\ (queue # <<>> /\ IsTask(Head(queue))) =>
             /\ Len(executed') = Len(executed) + 1
             /\ executed'[Len(executed')].id = Head(queue).lParam
             /\ executed'[Len(executed')].webview
                  = data[Head(queue).lParam].target
             /\ executed'[Len(executed')].webview = Head(queue).hwnd
    ]_vars

\* webview_loop was called with the first CWebView and ran a task of the
\* second
C19_Witness ==
  /\ last.op = "webview_loop"
  /\ last.h = 1
  /\ last.handled
  /\ executed # <<>>
  /\ executed[Len(executed)].webview = 2
  /\ data[executed[Len(executed)].id].target = 2

(* ------------------------------- threads ------------------------------ *)

\* C16 as stated: the webview_loop call that runs a task is made after the
\* webview_dispatch call for that task returned, so it is not a call that
\* was already waiting in GetMessageW when the task was posted.
C16_LoopCalledAfterDispatch ==
  [][ executed' # executed => ui.pc = "host" ]_vars

\* C16 (amended): webview_dispatch never calls the function and is never
\* made to wait; a function is called only by a webview_loop step of the UI
\* thread, for the DispatchData of the first message of the queue, which
\* PostMessageW put there in an earlier step, and never while another task
\* function is running. The webview_loop call may have been waiting in
\* GetMessageW since before the task was posted.
C16_OnlyInLoop ==
  [][ /\ executed' # executed =>
           /\ last'.op \in {"webview_loop", "task"}
           /\ worker' = worker
           /\ ui.pc \in {"host", "GetMessageW"}
           /\ queue # <<>>
           /\ data[Head(queue).lParam].st = "queued"
           /\ \A t \in Threads : worker[t] # Head(queue).lParam
           /\ executed' = Append(executed, TaskCall(Head(queue).lParam))
      /\ last'.op = "webview_dispatch" =>
           /\ executed' = executed
           /\ ui' = ui
      /\ \A t \in Threads :
           (worker[t] # 0 /\ ~crashed) => ENABLED dispatch_post(t)
    ]_vars

\* the UI thread, inside the function of a task it had submitted itself,
\* has just submitted another task, which waits in the queue
C16_Witness ==
  /\ ui.pc = "task"
  /\ data[ui.d].thread = 0
  /\ last.op = "webview_dispatch"
  /\ last.func = TaskOf(0)[1]
  /\ \E i \in 1..Len(queue) :
       /\ queue[i].lParam > ui.d
       /\ data[queue[i].lParam].thread = 0
       /\ data[queue[i].lParam].st = "queued"
       /\ queue[i].lParam \notin ExecutedIds

\* C20: webview_dispatch without a function fails in f.unwrap(), before a
\* DispatchData is boxed and before PostMessageW: the queue, the boxes, the
\* threads' pending posts and the executed calls are as before, and no step
\* follows that could execute anything for the call; with a function it
\* does not fail.
C20_NullFunction ==
  [][ /\ (last'.op = "webview_dispatch" /\ last'.func = NULL) =>
           /\ last'.outcome \in PanicOutcomes
           /\ crashed'
           /\ queue' = queue
           /\ data' = data
           /\ worker' = worker
           /\ executed' = executed
           /\ cwebview' = cwebview
      /\ (last'.op = "webview_dispatch" /\ last'.func # NULL) =>
           /\ last'.outcome = "return"
           /\ ~crashed'
      /\ ~crashed
      /\ \A i \in 1..Len(executed') : executed'[i].func # NULL
    ]_vars

\* a thread called webview_dispatch without a function while a task waits
\* in the queue and another one has run
C20_Witness ==
  /\ last.op = "webview_dispatch"
  /\ last.func = NULL
  /\ last.outcome \in PanicOutcomes
  /\ crashed
  /\ executed # <<>>
  /\ \E i \in 1..Len(queue) :
       /\ queue[i].message = WM_WEBVIEW_DISPATCH
       /\ data[queue[i].lParam].st = "queued"

(* ------------------------------ progress ------------------------------ *)

\* the latest webview_loop call returned 1: WM_QUIT was delivered
QuitDelivered == last.op = "webview_loop" /\ last.ret = 1

\* C15: with the UI thread calling webview_loop(webview, 1) again and
\* again, a task whose post succeeded is eventually executed, unless its
\* window is destroyed or WM_QUIT is delivered first.
C15_EventuallyExecuted ==
  \A d \in DataIds :
    (data[d].st = "queued")
      ~> \/ data[d].st = "freed"
         \/ ~IsWindow(data[d].target)
         \/ QuitDelivered

\* every task that was posted has been executed by blocking webview_loop
\* calls; the window of the last one exists and no WM_QUIT was delivered
C15_Witness ==
  /\ last.op = "webview_loop"
  /\ last.blocking = 1
  /\ last.msg = WM_WEBVIEW_DISPATCH
  /\ last.handled
  /\ Len(executed) >= 3
  /\ \A i \in 1..Len(executed) : data[executed[i].id].st = "freed"
  /\ IsWindow(executed[Len(executed)].webview)
  /\ \A i \in 1..Len(queue) : queue[i].message # WM_QUIT

====
